---- MODULE Spec2Model ----
(***************************************************************************)
(* Empire Conquest: the turn-resolution and building-placement rule engine *)
(* of the simulation app (src/unnamed/part_000).  The React state value    *)
(* gameState is one record; every handler is one action that computes the  *)
(* whole update, including the particle effects it queues.  Cells are      *)
(* objects shared by every state value (revealAdjacentCells copies only    *)
(* the outer array), which is modelled by prevState: the content of the    *)
(* previous state object as the last updater left it.  The grid is kept    *)
(* as the set of revealed positions and the cells that hold a building; a  *)
(* cell without a building has adjacencyBonus 0, which no code changes.    *)
(* Presentation-only data (cell.resources, messages' wording, icons and    *)
(* colours, particle ids and positions) is left out.  The image gallery   *)
(* (src/image-gal/src/App.tsx) is a second program of the repository; its  *)
(* state is kept in gallery and browser and has its own specification,     *)
(* SpecGallery, in which the game stays as constructed.                    *)
(***************************************************************************)
EXTENDS Integers, Sequences, FiniteSets, TLC

VARIABLES gameState, prevState, terrainId, timers, lastOp, gallery, browser

vars == <<gameState, prevState, terrainId, timers, lastOp, gallery, browser>>

(***************************************************************************)
(* Bounds of the model.                                                    *)
(***************************************************************************)
\* Spec: End Turn is enumerated while turn < MaxTurn
MaxTurn == 2
\* Spec: handleDrop is enumerated while fewer than MaxPlaced buildings were placed
MaxPlaced == 1
\* SpecSeasons: the same two bounds of the long run over the seasons
SeasonsMaxTurn == 18
SeasonsMaxPlaced == 1
\* SpecConquest: the same two bounds of the run to a territory victory
ConquestMaxTurn == 6
ConquestMaxPlaced == 17
\* SpecConquest: user input is enumerated while at most this many particles are live
ConquestMaxLiveParticles == 0
\* SpecOutpost: the same two bounds of the run that settles away from the castle
OutpostMaxTurn == 2
OutpostMaxPlaced == 4
\* SpecBatched: the same two bounds of the run with two drops of one render
BatchedMaxTurn == 3
BatchedMaxPlaced == 3

(***************************************************************************)
(* Program constants and tables.                                           *)
(***************************************************************************)
GRID_SIZE == 12

Null == "null"

\* selectedCell when it is null
NoCell == <<>>

Coords == 0 .. (GRID_SIZE - 1)

\* a cell position <<x, y>>; the code's grid[y][x]
Cells == Coords \X Coords

BuildingTypes == {"castle", "house", "farm", "mine", "barracks", "tower", "market"}

SeasonNames == <<"Spring", "Summer", "Autumn", "Winter">>

\* the seasonal bonuses in tenths (0.1 is 1)
SEASONS ==
  <<[name |-> "Spring", effects |-> [goldBonus |-> 1, foodBonus |-> 2, militaryBonus |-> 0]],
    [name |-> "Summer", effects |-> [goldBonus |-> 2, foodBonus |-> 3, militaryBonus |-> 1]],
    [name |-> "Autumn", effects |-> [goldBonus |-> 3, foodBonus |-> 1, militaryBonus |-> 2]],
    [name |-> "Winter", effects |-> [goldBonus |-> 0, foodBonus |-> -1, militaryBonus |-> 3]]>>

AchievementIds ==
  {"first_building", "gold_collector", "empire_builder", "all_buildings", "population_boom"}

INITIAL_ACHIEVEMENTS == [a \in AchievementIds |-> [unlocked |-> FALSE, progress |-> 0]]

BUILDING_COSTS ==
  [house    |-> [gold |-> 50,  food |-> 5,  population |-> 0],
   farm     |-> [gold |-> 75,  food |-> 0,  population |-> 2],
   mine     |-> [gold |-> 100, food |-> 10, population |-> 3],
   barracks |-> [gold |-> 150, food |-> 15, population |-> 5],
   tower    |-> [gold |-> 200, food |-> 20, population |-> 3],
   market   |-> [gold |-> 120, food |-> 8,  population |-> 4]]

\* the building types the palette offers: Object.entries(BUILDING_COSTS)
PlaceableTypes == DOMAIN BUILDING_COSTS

BUILDING_EFFECTS ==
  [castle   |-> [produces |-> [gold |-> 20, population |-> 2, food |-> 0,  military |-> 5],
                 consumes |-> [gold |-> 0,  population |-> 0, food |-> 5,  military |-> 0]],
   house    |-> [produces |-> [gold |-> 5,  population |-> 3, food |-> 0,  military |-> 0],
                 consumes |-> [gold |-> 0,  population |-> 0, food |-> 2,  military |-> 0]],
   farm     |-> [produces |-> [gold |-> 10, population |-> 0, food |-> 20, military |-> 0],
                 consumes |-> [gold |-> 2,  population |-> 1, food |-> 0,  military |-> 0]],
   mine     |-> [produces |-> [gold |-> 30, population |-> 0, food |-> 0,  military |-> 0],
                 consumes |-> [gold |-> 0,  population |-> 2, food |-> 8,  military |-> 0]],
   barracks |-> [produces |-> [gold |-> 0,  population |-> 0, food |-> 0,  military |-> 8],
                 consumes |-> [gold |-> 10, population |-> 3, food |-> 15, military |-> 0]],
   tower    |-> [produces |-> [gold |-> 0,  population |-> 0, food |-> 0,  military |-> 12],
                 consumes |-> [gold |-> 5,  population |-> 1, food |-> 8,  military |-> 0]],
   market   |-> [produces |-> [gold |-> 25, population |-> 1, food |-> 0,  military |-> 0],
                 consumes |-> [gold |-> 0,  population |-> 2, food |-> 5,  military |-> 0]]]

PLACEMENT_RULES ==
  [castle   |-> [validTerrain |-> {"grass", "mountain"},  maxDistance |-> 10, minDistance |-> 0],
   house    |-> [validTerrain |-> {"grass", "forest"},    maxDistance |-> 3,  minDistance |-> 0],
   farm     |-> [validTerrain |-> {"grass"},              maxDistance |-> 5,  minDistance |-> 1],
   mine     |-> [validTerrain |-> {"mountain", "forest"}, maxDistance |-> 10, minDistance |-> 0],
   barracks |-> [validTerrain |-> {"grass", "mountain"},  maxDistance |-> 4,  minDistance |-> 2],
   tower    |-> [validTerrain |-> {"grass", "mountain"},  maxDistance |-> 6,  minDistance |-> 1],
   market   |-> [validTerrain |-> {"grass"},              maxDistance |-> 3,  minDistance |-> 1]]

ADJACENCY_BONUSES ==
  [castle   |-> [house |-> 10, barracks |-> 15, tower |-> 20],
   house    |-> [house |-> 5, market |-> 10, castle |-> 15],
   farm     |-> [house |-> 5, market |-> 15, farm |-> -5],
   mine     |-> [market |-> 10, barracks |-> 5],
   barracks |-> [tower |-> 15, castle |-> 10, barracks |-> 10],
   tower    |-> [barracks |-> 10, tower |-> 5, castle |-> 20],
   market   |-> [house |-> 10, farm |-> 15, market |-> -10]]

(***************************************************************************)
(* Arithmetic of the host language.                                        *)
(***************************************************************************)
Max(a, b) == IF a >= b THEN a ELSE b

Min(a, b) == IF a <= b THEN a ELSE b

Abs(a) == IF a >= 0 THEN a ELSE -a

\* Math.round(num / den) for den > 0: the nearest integer, a half rounding up
MathRound(num, den) == (2 * num + den) \div (2 * den)

\* Math.round(n * b) for a bonus b given in tenths
RoundTenths(n, tenths) == MathRound(n * tenths, 10)

RECURSIVE SumOver(_, _)
\* the sum of f[e] over the elements e of the finite set S
SumOver(S, f) ==
  IF S = {} THEN 0
  ELSE LET e == CHOOSE e \in S : TRUE IN f[e] + SumOver(S \ {e}, f)

(***************************************************************************)
(* The grid.                                                               *)
(***************************************************************************)
TerrainIds == {1, 2}

\* the terrainRand drawn for a cell, in tenths, of two initial maps
TerrainRand(id, c) ==
  IF id = 1
    THEN IF c \in {<<6, 5>>, <<5, 4>>, <<0, 6>>, <<11, 5>>} THEN 0
         ELSE IF c \in {<<7, 6>>, <<4, 4>>, <<8, 8>>, <<2, 10>>, <<10, 2>>} THEN 2
         ELSE IF c \in {<<6, 7>>, <<6, 3>>, <<3, 6>>, <<9, 6>>, <<6, 9>>} THEN 3
         ELSE 5
    ELSE (7 * c[1] + 3 * c[2] + c[1] * c[2]) % 10

\* the terrain the constructor assigns for a draw
TerrainOf(id, c) ==
  LET terrainRand == TerrainRand(id, c)
  IN  IF terrainRand < 1 THEN "water"
      ELSE IF terrainRand < 3 THEN "forest"
      ELSE IF terrainRand < 4 THEN "mountain"
      ELSE "grass"

InGrid(x, y) == x >= 0 /\ x < GRID_SIZE /\ y >= 0 /\ y < GRID_SIZE

\* the in-grid cells of the 3 x 3 block centred on (x, y)
Block(x, y) ==
  {c \in Cells : c[1] >= x - 1 /\ c[1] <= x + 1 /\ c[2] >= y - 1 /\ c[2] <= y + 1}

\* cell.isRevealed
IsRevealed(grid, c) == c \in grid.revealed

\* cell.building is not null
HasBuilding(grid, c) == c \in DOMAIN grid.cells

\* cells holding a player-owned building
PlayerCells(grid) ==
  {c \in DOMAIN grid.cells : grid.cells[c].building.owner = "player"}

getBaseIncome(buildingType) == BUILDING_EFFECTS[buildingType].produces.gold

\* calculateTerritoryControl with Math.floor in place of Math.round
calculateTerritoryControlFloor(grid) ==
  LET totalCells == GRID_SIZE * GRID_SIZE
      revealedCells == Cardinality({c \in Cells : IsRevealed(grid, c)})
  IN  (revealedCells * 100) \div totalCells

calculateTerritoryControl(grid) ==
  LET totalCells == GRID_SIZE * GRID_SIZE
      revealedCells == Cardinality({c \in Cells : IsRevealed(grid, c)})
  IN  MathRound(revealedCells * 100, totalCells)

calculateDistance(x1, y1, x2, y2) == Max(Abs(x1 - x2), Abs(y1 - y2))

\* Null when the player owns no building
findNearestBuilding(grid, x, y) ==
  LET owned == PlayerCells(grid)
      dist == {calculateDistance(x, y, c[1], c[2]) : c \in owned}
  IN  IF owned = {} THEN -1
      ELSE CHOOSE d \in dist : \A e \in dist : d <= e

calculateAdjacencyBonus(grid, x, y, buildingType) ==
  LET bonuses == ADJACENCY_BONUSES[buildingType]
      adjacent == {c \in Block(x, y) \ {<<x, y>>} : c \in PlayerCells(grid)}
      bonus == [c \in adjacent |->
                  IF grid.cells[c].building.type \in DOMAIN bonuses
                    THEN bonuses[grid.cells[c].building.type] ELSE 0]
  IN  SumOver(adjacent, bonus)

canAffordBuilding(gs, buildingType) ==
  LET cost == BUILDING_COSTS[buildingType]
  IN  /\ gs.player.gold >= cost.gold
      /\ gs.player.food >= cost.food
      /\ gs.player.population >= cost.population

\* isValidPlacement without the lookup of the terrain in rules.validTerrain
isValidPlacementOnAnyTerrain(gs, tid, x, y, buildingType) ==
  LET cell == <<x, y>>
      terrain == TerrainOf(tid, cell)
      rules == PLACEMENT_RULES[buildingType]
      distanceToNearestBuilding == findNearestBuilding(gs.grid, x, y)
  IN  IF ~IsRevealed(gs.grid, cell) \/ HasBuilding(gs.grid, cell)
           \/ terrain = "water" THEN FALSE
      ELSE IF buildingType # "castle"
                /\ (\/ distanceToNearestBuilding = -1
                    \/ distanceToNearestBuilding < rules.minDistance
                    \/ distanceToNearestBuilding > rules.maxDistance) THEN FALSE
      ELSE TRUE

isValidPlacement(gs, tid, x, y, buildingType) ==
  LET cell == <<x, y>>
      terrain == TerrainOf(tid, cell)
      rules == PLACEMENT_RULES[buildingType]
      distanceToNearestBuilding == findNearestBuilding(gs.grid, x, y)
  IN  IF ~IsRevealed(gs.grid, cell) \/ HasBuilding(gs.grid, cell)
           \/ terrain = "water" THEN FALSE
      ELSE IF terrain \notin rules.validTerrain THEN FALSE
      ELSE IF buildingType # "castle"
                /\ (\/ distanceToNearestBuilding = -1
                    \/ distanceToNearestBuilding < rules.minDistance
                    \/ distanceToNearestBuilding > rules.maxDistance) THEN FALSE
      ELSE TRUE

\* revealAdjacentCells building the reveal state afresh from the block
revealOnlyAdjacentCells(x, y, grid) ==
  [grid EXCEPT !.revealed = Block(x, y)]

\* marks the block revealed in the cells of the grid it is given
revealAdjacentCells(x, y, grid) ==
  [grid EXCEPT !.revealed = @ \cup Block(x, y)]

\* the cells a render's gameState.grid would show were the updater's grid a
\* deep copy: the cells as they were at the render
CopiedCells(closureGrid, newGrid) == closureGrid

\* the cells a render's gameState.grid shows once an updater has written into
\* newGrid: both arrays hold the same row and cell objects
SharedCells(closureGrid, newGrid) == newGrid

updateAllAdjacencyBonuses(closureGrid, grid) ==
  [grid EXCEPT !.cells =
     [c \in DOMAIN grid.cells |->
        IF c \in PlayerCells(grid)
          THEN LET type == grid.cells[c].building.type
                   bonus == calculateAdjacencyBonus(SharedCells(closureGrid, grid),
                                                    c[1], c[2], type)
               IN  [grid.cells[c] EXCEPT !.building.income = getBaseIncome(type) + bonus,
                                         !.adjacencyBonus = bonus]
          ELSE grid.cells[c]]]

\* calculateTurnResources without the cells' adjacencyBonus
calculateTurnResourcesNoAdjacency(grid) ==
  LET owned == PlayerCells(grid)
      effects(c) == BUILDING_EFFECTS[grid.cells[c].building.type]
      gold == [c \in owned |-> effects(c).produces.gold - effects(c).consumes.gold]
      population == [c \in owned |->
                 effects(c).produces.population - effects(c).consumes.population]
      food == [c \in owned |-> effects(c).produces.food - effects(c).consumes.food]
      military == [c \in owned |->
                 effects(c).produces.military - effects(c).consumes.military]
  IN  [gold |-> 5 + SumOver(owned, gold),
       population |-> 1 + SumOver(owned, population),
       food |-> -2 + SumOver(owned, food),
       military |-> SumOver(owned, military)]

calculateTurnResources(grid) ==
  LET owned == PlayerCells(grid)
      effects(c) == BUILDING_EFFECTS[grid.cells[c].building.type]
      gold == [c \in owned |->
                 effects(c).produces.gold + grid.cells[c].adjacencyBonus
                   - effects(c).consumes.gold]
      population == [c \in owned |->
                 effects(c).produces.population - effects(c).consumes.population]
      food == [c \in owned |-> effects(c).produces.food - effects(c).consumes.food]
      military == [c \in owned |->
                 effects(c).produces.military - effects(c).consumes.military]
  IN  [gold |-> 5 + SumOver(owned, gold),
       population |-> 1 + SumOver(owned, population),
       food |-> -2 + SumOver(owned, food),
       military |-> SumOver(owned, military)]

(***************************************************************************)
(* Achievements and victory.                                               *)
(***************************************************************************)
\* updateAchievements with every threshold compared by > in place of >=
updateAchievementsStrict(newState) ==
  LET owned == PlayerCells(newState.grid)
      buildingCount == Cardinality(owned)
      uniqueBuildings == {newState.grid.cells[c].building.type : c \in owned}
  IN  [a \in AchievementIds |->
        CASE a = "first_building" ->
               [progress |-> Min(buildingCount, 1), unlocked |-> buildingCount > 1]
          [] a = "gold_collector" ->
               [progress |-> Min(newState.player.gold, 1000),
                unlocked |-> newState.player.gold > 1000]
          [] a = "empire_builder" ->
               [progress |-> Min(newState.territoryControlPercentage, 25),
                unlocked |-> newState.territoryControlPercentage > 25]
          [] a = "all_buildings" ->
               [progress |-> Cardinality(uniqueBuildings),
                unlocked |-> Cardinality(uniqueBuildings) > 7]
          [] a = "population_boom" ->
               [progress |-> Min(newState.player.population, 100),
                unlocked |-> newState.player.population > 100]]

updateAchievements(newState) ==
  LET owned == PlayerCells(newState.grid)
      buildingCount == Cardinality(owned)
      uniqueBuildings == {newState.grid.cells[c].building.type : c \in owned}
  IN  [a \in AchievementIds |->
        CASE a = "first_building" ->
               [progress |-> Min(buildingCount, 1), unlocked |-> buildingCount >= 1]
          [] a = "gold_collector" ->
               [progress |-> Min(newState.player.gold, 1000),
                unlocked |-> newState.player.gold >= 1000]
          [] a = "empire_builder" ->
               [progress |-> Min(newState.territoryControlPercentage, 25),
                unlocked |-> newState.territoryControlPercentage >= 25]
          [] a = "all_buildings" ->
               [progress |-> Cardinality(uniqueBuildings),
                unlocked |-> Cardinality(uniqueBuildings) >= 7]
          [] a = "population_boom" ->
               [progress |-> Min(newState.player.population, 100),
                unlocked |-> newState.player.population >= 100]]

\* checkVictoryConditions with the territory victory at half of the grid
checkVictoryConditionsAtHalf(gs) ==
  IF gs.territoryControlPercentage >= 50 THEN [won |-> TRUE, type |-> "territory"]
  ELSE IF /\ gs.player.gold >= 5000 /\ gs.player.population >= 200
          /\ gs.player.food >= 500 /\ gs.player.militaryStrength >= 100
         THEN [won |-> TRUE, type |-> "resources"]
  ELSE IF gs.achievements["all_buildings"].unlocked THEN [won |-> TRUE, type |-> "buildings"]
  ELSE [won |-> FALSE, type |-> Null]

\* evaluated on the gameState of the render that created the callback
checkVictoryConditions(gs) ==
  IF gs.territoryControlPercentage >= 60 THEN [won |-> TRUE, type |-> "territory"]
  ELSE IF /\ gs.player.gold >= 5000 /\ gs.player.population >= 200
          /\ gs.player.food >= 500 /\ gs.player.militaryStrength >= 100
         THEN [won |-> TRUE, type |-> "resources"]
  ELSE IF gs.achievements["all_buildings"].unlocked THEN [won |-> TRUE, type |-> "buildings"]
  ELSE [won |-> FALSE, type |-> Null]

(***************************************************************************)
(* Turn events.  A message is kept as its key, the number it prints and    *)
(* the season it names.                                                    *)
(***************************************************************************)
Event(type, message, amount, season) ==
  [type |-> type, message |-> message, amount |-> amount, season |-> season]

\* MessageIncludes for discovery messages that name every resource
MessageIncludesEveryResource(message) ==
  CASE message \in {"gold_vein", "fertile_lands", "ancient_ruins"}
         -> {"gold", "food", "population"}
    [] OTHER -> {}

\* the resource words a random event's message text contains
MessageIncludes(message) ==
  CASE message = "gold_vein"      -> {"gold"}
    [] message = "fertile_lands"  -> {"food"}
    [] message = "ancient_ruins"  -> {"population"}
    [] OTHER                       -> {}

weatherEvents == <<"perfect_weather", "storms", "clear_skies">>

discoveries == <<"gold_vein", "fertile_lands", "ancient_ruins">>

\* Math.floor(n / d) for d > 0
MathFloor(n, d) == n \div d

generateTurnEvents(resourceChanges, buildingCount) ==
  (IF resourceChanges.population > 2
     THEN <<Event("population_growth", "booming", resourceChanges.population, "")>> ELSE <<>>)
  \o (IF resourceChanges.gold > 50
     THEN <<Event("trade_success", "trade_routes", MathFloor(resourceChanges.gold, 10), "")>>
     ELSE <<>>)
  \o (IF resourceChanges.military > 5
     THEN <<Event("military_training", "training", resourceChanges.military, "")>> ELSE <<>>)
  \o (IF buildingCount > 5
     THEN <<Event("resource_bonus", "efficiency", 0, "")>> ELSE <<>>)
  \o (IF resourceChanges.food < -10
     THEN <<Event("resource_bonus", "food_low", 0, "")>> ELSE <<>>)

\* draw.chance is Math.random() in thousandths; draw.pick is the index
\* Math.floor(Math.random() * 3) of the one branch that draws it
generateRandomEvents(turn, season, draw) ==
  LET randomChance == draw.chance
  IN  (IF randomChance < 100
         THEN <<Event("weather_effect", weatherEvents[draw.pick + 1], 0, "")>> ELSE <<>>)
      \o (IF randomChance > 100 /\ randomChance < 180
         THEN <<Event("resource_discovery", discoveries[draw.pick + 1], 0, "")>>
         ELSE <<>>)
      \o (IF randomChance > 180 /\ randomChance < 230
         THEN <<Event("bandit_attack", "bandits", 0, "")>> ELSE <<>>)
      \o (IF turn % 4 = 0 /\ turn > 1
         THEN LET seasonIndex == ((turn - 1) \div 4) % 4
                  newSeason == SEASONS[seasonIndex + 1]
              IN  <<Event("seasonal_change", "arrives", 0, newSeason.name)>>
         ELSE <<>>)

RECURSIVE eventBonuses(_)
\* the bonuses the switch over the random events adds up
eventBonuses(randomEvents) ==
  IF randomEvents = <<>> THEN [gold |-> 0, population |-> 0, food |-> 0, military |-> 0]
  ELSE LET event == Head(randomEvents)
           rest == eventBonuses(Tail(randomEvents))
       IN  CASE event.type = "resource_discovery" ->
                  [gold |-> rest.gold
                              + (IF "gold" \in MessageIncludes(event.message) THEN 200 ELSE 0),
                   food |-> rest.food
                              + (IF "food" \in MessageIncludes(event.message) THEN 50 ELSE 0),
                   population |-> rest.population
                              + (IF "population" \in MessageIncludes(event.message)
                                   THEN 20 ELSE 0),
                   military |-> rest.military]
             [] event.type = "bandit_attack" ->
                  [gold |-> rest.gold - 50, food |-> rest.food - 20,
                   population |-> rest.population, military |-> rest.military + 5]
             [] OTHER -> rest

(***************************************************************************)
(* Particle effects: the live particles counted by type; each live         *)
(* particle has one pending removal timeout.                               *)
(***************************************************************************)
ParticleTypes == {"sparkle", "coin", "build", "victory"}

NoParticles == [t \in ParticleTypes |-> 0]

addParticleEffect(particleEffects, type) ==
  [particleEffects EXCEPT ![type] = @ + 1]

RECURSIVE addParticleEffects(_, _, _)
addParticleEffects(particleEffects, type, n) ==
  IF n = 0 THEN particleEffects
  ELSE addParticleEffects(addParticleEffect(particleEffects, type), type, n - 1)

LiveParticles(particleEffects) ==
  particleEffects["sparkle"] + particleEffects["coin"]
    + particleEffects["build"] + particleEffects["victory"]

(***************************************************************************)
(* The initial state: lines 408-483.                                       *)
(***************************************************************************)
centerX == GRID_SIZE \div 2

centerY == GRID_SIZE \div 2

\* a cell's building and adjacencyBonus
CellOf(building, adjacencyBonus) ==
  [building |-> building, adjacencyBonus |-> adjacencyBonus]

InitialGrid ==
  [revealed |-> Block(centerX, centerY),
   cells |-> [c \in {<<centerX, centerY>>} |->
                CellOf([type |-> "castle", level |-> 1, owner |-> "player", income |-> 20],
                       0)]]

InitialState ==
  [grid |-> InitialGrid,
   turn |-> 1,
   timeOfDay |-> "day",
   isTransitioning |-> FALSE,
   player |-> [gold |-> 300, population |-> 10, army |-> 5, food |-> 50,
               militaryStrength |-> 5],
   selectedCell |-> NoCell,
   gamePhase |-> "placement",
   resourceChanges |-> [gold |-> 0, population |-> 0, food |-> 0, military |-> 0],
   lastTurnIncome |-> [gold |-> 0, population |-> 0, food |-> 0, military |-> 0],
   turnEvents |-> <<>>,
   showTurnSummary |-> FALSE,
   showEndTurnConfirm |-> FALSE,
   territoryControlPercentage |-> MathRound(9 * 100, GRID_SIZE * GRID_SIZE),
   currentSeason |-> SEASONS[1],
   achievements |-> INITIAL_ACHIEVEMENTS,
   particleEffects |-> NoParticles,
   gameWon |-> FALSE,
   victoryType |-> Null,
   showVictoryScreen |-> FALSE,
   isLoading |-> FALSE]

(***************************************************************************)
(* Image gallery (src/image-gal/src/App.tsx).  gallery is the React state  *)
(* of ImageGallery, browser what the component reads from its environment  *)
(* and what it has scheduled: the window and container sizes, the          *)
(* navigator's connection object, the timer of the reset effect and the    *)
(* loads that wait for their delay and fetch.  A string is a sequence of   *)
(* characters.  A photo is [id, width, height, title]; its url, colour and *)
(* loaded flag, the mouse position and the hover, focus and download state *)
(* are presentation only and left out.                                     *)
(***************************************************************************)
ITEMS_PER_PAGE == 20

\* SpecGallery: a load is started while fewer than MaxInFlight loads are waiting
MaxInFlight == 1
\* SpecGallery: a fetch returns photos while the list holds fewer than MaxPhotos
MaxPhotos == 3
\* SpecGallery: page buttons are enumerated up to page MaxPage
MaxPage == 1

UpperChars == <<"A", "B", "C", "D", "E", "F", "G", "H", "I", "J", "K", "L", "M", "N", "O", "P", "Q", "R", "S", "T", "U", "V", "W", "X", "Y", "Z">>
LowerChars == <<"a", "b", "c", "d", "e", "f", "g", "h", "i", "j", "k", "l", "m", "n", "o", "p", "q", "r", "s", "t", "u", "v", "w", "x", "y", "z">>

\* String.prototype.toLowerCase on the letters A..Z
toLowerCase(s) ==
  [i \in 1..Len(s) |->
     IF \E k \in 1..Len(UpperChars) : UpperChars[k] = s[i]
       THEN LowerChars[CHOOSE k \in 1..Len(UpperChars) : UpperChars[k] = s[i]]
       ELSE s[i]]

\* String.prototype.trim
trim(s) ==
  LET inked == {i \in 1..Len(s) : s[i] # " "}
  IN  IF inked = {} THEN <<>>
      ELSE SubSeq(s, CHOOSE i \in inked : \A j \in inked : i <= j,
                     CHOOSE i \in inked : \A j \in inked : i >= j)

\* String.prototype.includes
includes(s, q) ==
  \E start \in 1..(Len(s) + 1) :
    /\ start + Len(q) - 1 <= Len(s)
    /\ \A k \in 1..Len(q) : s[start + k - 1] = q[k]

\* two of the PHOTO_TITLES (lines 37-41)
PHOTO_TITLES ==
  <<<<"B", "l", "u", "e", " ", "S", "k", "i", "e", "s">>,
    <<"O", "c", "e", "a", "n", " ", "W", "a", "v", "e", "s">>>>

\* the photos generatePhotos can build from a Picsum list (lines 103-120):
\* width in 500..799, height the rounded width / aspectRatio
PhotoPool ==
  {[id |-> "10", width |-> 512, height |-> 256, title |-> PHOTO_TITLES[1]],
   [id |-> "11", width |-> 640, height |-> 960, title |-> PHOTO_TITLES[2]]}

\* what one call of generatePhotos returns: a page of one photo, or the
\* empty list with hasError set when the fetch fails (lines 95-126)
FetchFailed == [ok |-> FALSE, photos |-> <<>>]
FetchOutcomes(room) ==
  {FetchFailed}
  \cup (IF room > 0 THEN {[ok |-> TRUE, photos |-> <<p>>] : p \in PhotoPool} ELSE {})

\* the values typed into the search box (line 573) or set by Clear (line 791)
SearchQueries == {<<>>, <<" ">>, <<" ", "I", " ">>}

\* window.innerWidth, window.innerHeight and the container's offsetWidth
\* (max-w-7xl, line 626)
Viewports ==
  {[innerWidth |-> 600, innerHeight |-> 800, containerWidth |-> 600],
   [innerWidth |-> 700, innerHeight |-> 700, containerWidth |-> 700],
   [innerWidth |-> 1366, innerHeight |-> 768, containerWidth |-> 1280]}

\* a navigator without connection object, and a timer that is not set
NoConnection == <<>>
NoTimer == <<>>

\* navigator.connection (lines 22-29) as a one-element sequence; downlink in
\* tenths of Mbit/s
ConnectionInfos ==
  {[effectiveType |-> "4g", saveData |-> FALSE, downlink |-> 100, rtt |-> 50],
   [effectiveType |-> "3g", saveData |-> FALSE, downlink |-> 100, rtt |-> 50],
   [effectiveType |-> "4g", saveData |-> TRUE, downlink |-> 0, rtt |-> 400]}
Connections == {<<info>> : info \in ConnectionInfos}

\* detectConnectionSpeed, lines 129-152: the speed it returns and stores
detectConnectionSpeed(connection) ==
  IF connection # NoConnection
    THEN LET info == connection[1]
             isSlowType == info.effectiveType \in {"slow-2g", "2g", "3g"}
             isSaveDataEnabled == info.saveData = TRUE
             isSlowDownlink == info.downlink # 0 /\ info.downlink < 15
             isHighRTT == info.rtt # 0 /\ info.rtt > 300
         IN  IF isSlowType \/ isSaveDataEnabled \/ isSlowDownlink \/ isHighRTT
               THEN "slow" ELSE "fast"
    ELSE "fast"

\* the state detectConnectionSpeed leaves
setConnectionSpeed(g, speed) ==
  [g EXCEPT !.connectionSpeed = speed, !.isSlowConnection = (speed = "slow")]

\* the column count of a container width, lines 167-174
columnsOf(containerWidth) ==
  IF containerWidth >= 1536 THEN 6
  ELSE IF containerWidth >= 1280 THEN 5
  ELSE IF containerWidth >= 1024 THEN 4
  ELSE IF containerWidth >= 768 THEN 3
  ELSE IF containerWidth >= 640 THEN 2
  ELSE 1

\* the strategy of lines 184-193
strategyOf(portrait, speed) ==
  IF ~portrait
    THEN IF speed = "fast" THEN "infinite-scroll" ELSE "load-more"
    ELSE "pagination"

\* updateViewportInfo, lines 155-195
updateViewportInfo(g, b) ==
  LET width == b.viewport.innerWidth
      height == b.viewport.innerHeight
      portrait == height > width
      speed == detectConnectionSpeed(b.connection)
  IN  [setConnectionSpeed(g, speed) EXCEPT
         !.viewportWidth = width,
         !.viewportHeight = height,
         !.isPortrait = portrait,
         !.columnCount = columnsOf(b.viewport.containerWidth),
         !.loadingStrategy = strategyOf(portrait, speed)]

\* filteredPhotos, lines 383-390
filteredPhotos(g) ==
  IF trim(g.searchQuery) = <<>>
    THEN g.photos
    ELSE LET query == trim(toLowerCase(g.searchQuery))
         IN  SelectSeq(g.photos, LAMBDA photo : includes(toLowerCase(photo.title), query))

\* height / width in units of 1 / RatioScale; the widths of PhotoPool divide
\* RatioScale and every quotient is a multiple of 1/2, so that the sums of
\* doubles of line 413 are exact
RatioScale == 7680
aspect(photo) == (photo.height * RatioScale) \div photo.width

\* Array.prototype.indexOf(Math.min(...columnHeights)), line 409
shortestColumnIndex(columnHeights) ==
  LET least == CHOOSE h \in {columnHeights[k] : k \in DOMAIN columnHeights} :
                 \A k \in DOMAIN columnHeights : h <= columnHeights[k]
  IN  CHOOSE k \in DOMAIN columnHeights :
        /\ columnHeights[k] = least
        /\ \A j \in DOMAIN columnHeights : columnHeights[j] = least => k <= j

\* the forEach of lines 407-414 over the first n photos: the columns and
\* their heights; columns are numbered from 0 as in the code
RECURSIVE masonry(_, _, _)
masonry(photos, n, columnCount) ==
  IF n = 0
    THEN [columns |-> [k \in 0..(columnCount - 1) |-> <<>>],
          columnHeights |-> [k \in 0..(columnCount - 1) |-> 0]]
    ELSE LET before == masonry(photos, n - 1, columnCount)
             photo == photos[n]
             index == shortestColumnIndex(before.columnHeights)
         IN  [columns |-> [before.columns EXCEPT ![index] = Append(@, photo)],
              columnHeights |-> [before.columnHeights EXCEPT ![index] = @ + aspect(photo)]]

\* the forEach of lines 400-402 over the first n photos
RECURSIVE sequential(_, _, _)
sequential(photos, n, columnCount) ==
  IF n = 0
    THEN [k \in 0..(columnCount - 1) |-> <<>>]
    ELSE [sequential(photos, n - 1, columnCount) EXCEPT
            ![(n - 1) % columnCount] = Append(@, photos[n])]

\* photoColumns with the sequential layout in both modes
photoColumnsSequential(g) ==
  sequential(filteredPhotos(g), Len(filteredPhotos(g)), g.columnCount)

\* photoColumns, lines 393-417
photoColumns(g) ==
  LET isSearchActive == trim(g.searchQuery) # <<>>
  IN  IF isSearchActive
        THEN sequential(filteredPhotos(g), Len(filteredPhotos(g)), g.columnCount)
        ELSE masonry(filteredPhotos(g), Len(filteredPhotos(g)), g.columnCount).columns

\* the state of the first render, lines 54-72
InitialGallery(viewport) ==
  [photos |-> <<>>,
   searchQuery |-> <<>>,
   currentPage |-> 1,
   isLoading |-> FALSE,
   hasError |-> FALSE,
   totalPages |-> 1,
   allPhotos |-> <<>>,
   isPortrait |-> viewport.innerHeight > viewport.innerWidth,
   columnCount |-> 4,
   viewportWidth |-> viewport.innerWidth,
   viewportHeight |-> viewport.innerHeight,
   connectionSpeed |-> "fast",
   isSlowConnection |-> FALSE,
   loadingStrategy |-> "infinite-scroll"]

\* the environment before the effects of the first render ran
InitialBrowser(viewport, connection) ==
  [viewport |-> viewport, connection |-> connection, mounted |-> FALSE,
   timer |-> NoTimer, loads |-> <<>>]

\* the gallery is not part of the game: it stays as constructed
GalleryAside ==
  /\ gallery = InitialGallery(CHOOSE v \in Viewports : v.innerWidth = 1366)
  /\ browser = InitialBrowser(CHOOSE v \in Viewports : v.innerWidth = 1366, NoConnection)

\* what an updater leaves in the state object it was given
PrevObject(grid, isLoading) == [grid |-> grid, isLoading |-> isLoading]

Init ==
  /\ terrainId \in TerrainIds
  /\ gameState = InitialState
  /\ prevState = PrevObject(InitialGrid, FALSE)
  /\ timers = [transition |-> 0, victory |-> 0]
  /\ lastOp = "init"
  /\ GalleryAside

\* the initial state on the first terrain map
InitMapOne == Init /\ terrainId = 1

(***************************************************************************)
(* placeBuilding: lines 846-901.  gs is the gameState of the render that   *)
(* created the callback, prev the state the updater is given.              *)
(***************************************************************************)
placeBuilding(gs, prev, tid, x, y, buildingType) ==
  IF ~isValidPlacement(gs, tid, x, y, buildingType) \/ ~canAffordBuilding(gs, buildingType)
    THEN prev
    ELSE
      LET cost == BUILDING_COSTS[buildingType]
          adjacencyBonus == calculateAdjacencyBonus(gs.grid, x, y, buildingType)
          revealed == revealAdjacentCells(x, y, prev.grid)
          built == CellOf([type |-> buildingType, level |-> 1, owner |-> "player",
                           income |-> getBaseIncome(buildingType) + adjacencyBonus],
                          adjacencyBonus)
          placed == [revealed EXCEPT
                       !.cells = [c \in DOMAIN @ \cup {<<x, y>>} |->
                                    IF c = <<x, y>> THEN built ELSE @[c]]]
          newGrid == updateAllAdjacencyBonuses(gs.grid, placed)
          newTerritoryControl == calculateTerritoryControl(newGrid)
          newState == [prev EXCEPT
                         !.grid = newGrid,
                         !.player.gold = @ - cost.gold,
                         !.player.food = @ - cost.food,
                         !.player.population =
                            @ - cost.population + (IF buildingType = "house" THEN 2 ELSE 0),
                         !.territoryControlPercentage = newTerritoryControl]
          oldAchievements == prev.achievements
          newAchievements == updateAchievements(newState)
          newlyUnlocked == {a \in AchievementIds :
                              newAchievements[a].unlocked /\ ~oldAchievements[a].unlocked}
      IN  [newState EXCEPT
             !.achievements = newAchievements,
             !.particleEffects =
                addParticleEffects(addParticleEffect(@, "build"), "sparkle",
                                   Cardinality(newlyUnlocked))]

(***************************************************************************)
(* nextTurn: lines 970-1083.                                               *)
(***************************************************************************)
\* newSeasonOf indexed by the turn being started in place of the turn ended
newSeasonOfNextTurn(prev) == SEASONS[(((prev.turn + 1) \div 4) % 4) + 1]

\* the season whose bonuses nextTurn applies and makes current
newSeasonOf(prev) == SEASONS[((prev.turn \div 4) % 4) + 1]

\* seasonalBonuses with Math.floor in place of Math.round
seasonalBonusesFloor(resourceChanges, newSeason) ==
  [gold |-> MathFloor(resourceChanges.gold * newSeason.effects.goldBonus, 10),
   population |-> 0,
   food |-> MathFloor(resourceChanges.food * newSeason.effects.foodBonus, 10),
   military |-> MathFloor(resourceChanges.military * newSeason.effects.militaryBonus, 10)]

seasonalBonuses(resourceChanges, newSeason) ==
  [gold |-> RoundTenths(resourceChanges.gold, newSeason.effects.goldBonus),
   population |-> RoundTenths(resourceChanges.population, 0),
   food |-> RoundTenths(resourceChanges.food, newSeason.effects.foodBonus),
   military |-> RoundTenths(resourceChanges.military, newSeason.effects.militaryBonus)]

\* adjustedResourceChanges, lines 992-997
adjustResourceChanges(resourceChanges, newSeason) ==
  LET bonuses == seasonalBonuses(resourceChanges, newSeason)
  IN  [gold |-> resourceChanges.gold + bonuses.gold,
       population |-> resourceChanges.population,
       food |-> resourceChanges.food + bonuses.food,
       military |-> resourceChanges.military + bonuses.military]

\* finalResourceChanges, lines 1021-1026
finalChanges(adjustedResourceChanges, eventBonus) ==
  [gold |-> adjustedResourceChanges.gold + eventBonus.gold,
   population |-> adjustedResourceChanges.population + eventBonus.population,
   food |-> adjustedResourceChanges.food + eventBonus.food,
   military |-> adjustedResourceChanges.military + eventBonus.military]

\* newPlayer keeping the floor of the population alone
newPlayerOfUnclamped(player, finalResourceChanges) ==
  [gold |-> player.gold + finalResourceChanges.gold,
   population |-> Max(1, player.population + finalResourceChanges.population),
   food |-> player.food + finalResourceChanges.food,
   militaryStrength |-> player.militaryStrength + finalResourceChanges.military,
   army |-> player.army + MathFloor(finalResourceChanges.military, 2)]

\* newPlayer, lines 1028-1035
newPlayerOf(player, finalResourceChanges) ==
  [gold |-> Max(0, player.gold + finalResourceChanges.gold),
   population |-> Max(1, player.population + finalResourceChanges.population),
   food |-> Max(0, player.food + finalResourceChanges.food),
   militaryStrength |-> Max(0, player.militaryStrength + finalResourceChanges.military),
   army |-> Max(0, player.army + MathFloor(finalResourceChanges.military, 2))]

\* the victory branch, lines 1055-1062
applyVictory(newState, victoryCheck) ==
  IF victoryCheck.won
    THEN [newState EXCEPT !.gameWon = TRUE,
                          !.victoryType = victoryCheck.type,
                          !.showVictoryScreen = TRUE,
                          !.gamePhase = "victory"]
    ELSE newState

\* newTimeOfDay without the flip back to day
newTimeOfDayNight(prev) == "night"

\* newTimeOfDay, line 976
newTimeOfDayOf(prev) == IF prev.timeOfDay = "day" THEN "night" ELSE "day"

\* newState and what follows it, lines 1037-1076
resolveTurn(gs, prev, newSeason, allEvents, finalResourceChanges) ==
  LET newTimeOfDay == newTimeOfDayOf(prev)
      newState == [prev EXCEPT
                     !.turn = prev.turn + 1,
                     !.timeOfDay = newTimeOfDay,
                     !.isTransitioning = TRUE,
                     !.showTurnSummary = TRUE,
                     !.showEndTurnConfirm = FALSE,
                     !.player = newPlayerOf(prev.player, finalResourceChanges),
                     !.resourceChanges = finalResourceChanges,
                     !.lastTurnIncome = finalResourceChanges,
                     !.turnEvents = allEvents,
                     !.currentSeason = newSeason,
                     !.isLoading = FALSE,
                     !.particleEffects =
                        IF finalResourceChanges.gold > 50
                          THEN addParticleEffect(@, "coin") ELSE @]
  IN  applyVictory([newState EXCEPT !.achievements = updateAchievements(newState)],
                   checkVictoryConditions(gs))

nextTurn(gs, prev, draw) ==
  LET buildingCount == Cardinality(PlayerCells(prev.grid))
      newSeason == newSeasonOf(prev)
      adjustedResourceChanges ==
        adjustResourceChanges(calculateTurnResources(gs.grid), newSeason)
      randomEvents == generateRandomEvents(prev.turn + 1, newSeason, draw)
  IN  resolveTurn(gs, prev, newSeason,
                  generateTurnEvents(adjustedResourceChanges, buildingCount) \o randomEvents,
                  finalChanges(adjustedResourceChanges, eventBonuses(randomEvents)))

(***************************************************************************)
(* Inputs.                                                                 *)
(***************************************************************************)
\* Math.random() in thousandths: one value inside each range of
\* generateRandomEvents and the three boundary values
Chances == {50, 100, 140, 180, 200, 230, 600}

AllDraws == [chance : Chances, pick : 0 .. 2]

NoEventDraw == [chance |-> 600, pick |-> 0]

\* setPlacingBuilding is only ever called with null (lines 907, 3106)
placingBuilding == Null

\* the bounds and input sets of the main specification
MainBounds ==
  [maxTurn |-> MaxTurn, maxPlaced |-> MaxPlaced, events |-> TRUE, paced |-> FALSE,
   drops |-> {<<6, 5>>, <<7, 6>>, <<7, 7>>, <<8, 8>>} \X PlaceableTypes,
   clicks |-> {<<6, 6>>, <<0, 0>>}]

\* the bounds and input sets of the long run over the seasons
SeasonsBounds ==
  [maxTurn |-> SeasonsMaxTurn, maxPlaced |-> SeasonsMaxPlaced,
   events |-> FALSE, paced |-> FALSE,
   drops |-> {<<7, 7>>, <<5, 6>>} \X {"house", "tower"},
   clicks |-> {<<6, 6>>}]

\* the draws of a run with random events, the one draw of a run without
Draws(B) == IF B.events THEN AllDraws ELSE {NoEventDraw}

\* the victory screen (line 3285) is the last of the full-window layers: it
\* covers the page, the End Turn dialog and the turn summary
VictoryScreenCovers(gs) == gs.showVictoryScreen

\* the three layouts and their End Turn buttons: the desktop (line 2631) and
\* the mobile one (line 2989) are disabled while isTransitioning or gameWon,
\* the tablet one (line 2882) only while isTransitioning
Layouts == {"desktop", "tablet", "mobile"}

EndTurnDisabled(gs, layout) ==
  gs.isTransitioning \/ (layout # "tablet" /\ gs.gameWon)

\* the modal End Turn dialog, the modal turn summary and the victory screen
\* cover the board; a paced run waits for the particles to expire before the
\* next input
BoardInput(B) ==
  /\ ~gameState.showEndTurnConfirm
  /\ ~gameState.showTurnSummary
  /\ ~VictoryScreenCovers(gameState)
  /\ B.paced => LiveParticles(gameState.particleEffects) <= ConquestMaxLiveParticles

(***************************************************************************)
(* Actions: one per handler or timeout.                                    *)
(***************************************************************************)
\* handleDrop, lines 791-800
HandleDrop(B) ==
  /\ BoardInput(B)
  /\ Cardinality(PlayerCells(gameState.grid)) <= B.maxPlaced
  /\ \E d \in B.drops :
       LET x == d[1][1]
           y == d[1][2]
           buildingType == d[2]
       IN  IF isValidPlacement(gameState, terrainId, x, y, buildingType)
              /\ canAffordBuilding(gameState, buildingType)
             THEN /\ gameState' = placeBuilding(gameState, gameState, terrainId, x, y, buildingType)
                  /\ prevState' = PrevObject(gameState'.grid, gameState.isLoading)
                  /\ lastOp' = "placeBuilding"
                  /\ UNCHANGED <<terrainId, timers, gallery, browser>>
             ELSE UNCHANGED vars

\* handleDrop, lines 791-800, run twice by the callbacks of one render, on
\* two cells: each call checks isValidPlacement and canAffordBuilding on that
\* render's gameState (line 847), and the two updaters (line 852) run in
\* turn, the second on the state the first returned.  Only SpecBatched
\* takes this step: in the other specifications every drop is handled by
\* the render of the state it changes
HandleDropTwice(B) ==
  /\ BoardInput(B)
  /\ Cardinality(PlayerCells(gameState.grid)) + 1 <= B.maxPlaced
  /\ \E d1 \in B.drops, d2 \in B.drops :
       /\ d1[1] # d2[1]
       /\ LET first == placeBuilding(gameState, gameState, terrainId,
                                     d1[1][1], d1[1][2], d1[2])
          IN  IF /\ isValidPlacement(gameState, terrainId, d1[1][1], d1[1][2], d1[2])
                 /\ canAffordBuilding(gameState, d1[2])
                 /\ isValidPlacement(gameState, terrainId, d2[1][1], d2[1][2], d2[2])
                 /\ canAffordBuilding(gameState, d2[2])
                THEN /\ gameState' = placeBuilding(gameState, first, terrainId,
                                                   d2[1][1], d2[1][2], d2[2])
                     /\ prevState' = PrevObject(gameState'.grid, gameState.isLoading)
                     /\ lastOp' = "placeBuilding"
                     /\ UNCHANGED <<terrainId, timers, gallery, browser>>
                ELSE UNCHANGED vars

\* handleCellClick, lines 903-917
HandleCellClick(B) ==
  /\ BoardInput(B)
  /\ \E c \in B.clicks :
       LET x == c[1]
           y == c[2]
       IN  IF placingBuilding # Null
             THEN IF isValidPlacement(gameState, terrainId, x, y, placingBuilding)
                     /\ canAffordBuilding(gameState, placingBuilding)
                    THEN /\ gameState' = placeBuilding(gameState, gameState, terrainId, x, y,
                                                       placingBuilding)
                         /\ prevState' = PrevObject(gameState'.grid, gameState.isLoading)
                         /\ lastOp' = "placeBuilding"
                         /\ UNCHANGED <<terrainId, timers, gallery, browser>>
                    ELSE UNCHANGED vars
             ELSE IF ~IsRevealed(gameState.grid, c)
                    THEN UNCHANGED vars
                    ELSE /\ gameState' = [gameState EXCEPT !.selectedCell = c]
                         /\ UNCHANGED <<prevState, terrainId, timers, lastOp, gallery, browser>>

\* confirmEndTurn, lines 1085-1087, from an End Turn button that is enabled
ConfirmEndTurn(B) ==
  /\ BoardInput(B)
  /\ \E layout \in Layouts : ~EndTurnDisabled(gameState, layout)
  /\ gameState.turn < B.maxTurn
  /\ gameState' = [gameState EXCEPT !.showEndTurnConfirm = TRUE]
  /\ UNCHANGED <<prevState, terrainId, timers, lastOp, gallery, browser>>

\* cancelEndTurn, lines 1089-1091
CancelEndTurn ==
  /\ gameState.showEndTurnConfirm
  /\ ~VictoryScreenCovers(gameState)
  /\ gameState' = [gameState EXCEPT !.showEndTurnConfirm = FALSE]
  /\ UNCHANGED <<prevState, terrainId, timers, lastOp, gallery, browser>>

\* closeTurnSummary, lines 1093-1095
CloseTurnSummary ==
  /\ gameState.showTurnSummary
  /\ ~VictoryScreenCovers(gameState)
  /\ gameState' = [gameState EXCEPT !.showTurnSummary = FALSE]
  /\ UNCHANGED <<prevState, terrainId, timers, lastOp, gallery, browser>>

\* nextTurn, lines 970-1083, from the dialog's Confirm button (line 3149)
NextTurn(B) ==
  /\ gameState.showEndTurnConfirm
  /\ ~VictoryScreenCovers(gameState)
  /\ gameState.turn < B.maxTurn
  /\ \E draw \in Draws(B) :
       /\ gameState' = nextTurn(gameState, gameState, draw)
       /\ prevState' = PrevObject(gameState.grid, TRUE)
       /\ timers' = [transition |-> timers.transition + 1,
                     victory |-> timers.victory
                                   + (IF checkVictoryConditions(gameState).won THEN 10 ELSE 0)]
       /\ lastOp' = "nextTurn"
       /\ UNCHANGED <<terrainId, gallery, browser>>

\* the timeout of line 1080 ending the day/night transition by a second flip
TransitionTimeoutFlipsDay ==
  /\ timers.transition > 0
  /\ gameState' = [gameState EXCEPT !.isTransitioning = FALSE,
                                    !.timeOfDay = newTimeOfDayOf(gameState)]
  /\ timers' = [timers EXCEPT !.transition = @ - 1]
  /\ UNCHANGED <<prevState, terrainId, lastOp, gallery, browser>>

\* the timeout of line 1080 writing back the gameWon and victoryType of the
\* render that scheduled it
TransitionTimeoutFromClosure ==
  /\ timers.transition > 0
  /\ gameState' = [gameState EXCEPT !.isTransitioning = FALSE,
                                    !.gameWon = FALSE,
                                    !.victoryType = Null]
  /\ timers' = [timers EXCEPT !.transition = @ - 1]
  /\ UNCHANGED <<prevState, terrainId, lastOp, gallery, browser>>

\* the timeout of line 1080
TransitionTimeout ==
  /\ timers.transition > 0
  /\ gameState' = [gameState EXCEPT !.isTransitioning = FALSE]
  /\ timers' = [timers EXCEPT !.transition = @ - 1]
  /\ UNCHANGED <<prevState, terrainId, lastOp, gallery, browser>>

\* the timeout of line 527: a particle's removal
ParticleTimeout ==
  \E type \in ParticleTypes :
    /\ gameState.particleEffects[type] > 0
    /\ gameState' = [gameState EXCEPT !.particleEffects[type] = @ - 1]
    /\ UNCHANGED <<prevState, terrainId, timers, lastOp, gallery, browser>>

\* the timeouts of line 1065: a victory particle burst
VictoryBurst ==
  /\ timers.victory > 0
  /\ gameState' = [gameState EXCEPT
                     !.particleEffects = addParticleEffect(@, "victory")]
  /\ timers' = [timers EXCEPT !.victory = @ - 1]
  /\ UNCHANGED <<prevState, terrainId, lastOp, gallery, browser>>

Next ==
  \/ HandleDrop(MainBounds)
  \/ HandleCellClick(MainBounds)
  \/ ConfirmEndTurn(MainBounds)
  \/ CancelEndTurn
  \/ NextTurn(MainBounds)
  \/ CloseTurnSummary
  \/ TransitionTimeout
  \/ ParticleTimeout

Spec == InitMapOne /\ [][Next]_vars

NextSeasons ==
  \/ HandleDrop(SeasonsBounds)
  \/ HandleCellClick(SeasonsBounds)
  \/ ConfirmEndTurn(SeasonsBounds)
  \/ CancelEndTurn
  \/ NextTurn(SeasonsBounds)
  \/ CloseTurnSummary
  \/ TransitionTimeout
  \/ ParticleTimeout

SpecSeasons == Init /\ [][NextSeasons]_vars

\* a path of buildings from the castle in which each position is revealed by
\* the building before it: farms first and eighth, houses elsewhere
ConquestDrops ==
  ({<<7, 7>>, <<8, 2>>} \X {"farm"})
  \cup ({<<8, 8>>, <<9, 7>>, <<10, 6>>, <<9, 5>>, <<10, 4>>, <<9, 3>>,
         <<7, 1>>, <<6, 2>>, <<5, 3>>, <<4, 4>>, <<3, 5>>, <<2, 6>>,
         <<1, 7>>, <<2, 8>>, <<1, 9>>, <<2, 10>>} \X {"house"})

\* the bounds and input sets of the run to a territory victory
ConquestBounds ==
  [maxTurn |-> ConquestMaxTurn, maxPlaced |-> ConquestMaxPlaced,
   events |-> FALSE, paced |-> TRUE,
   drops |-> ConquestDrops,
   clicks |-> {}]


NextConquest ==
  \/ HandleDrop(ConquestBounds)
  \/ ConfirmEndTurn(ConquestBounds)
  \/ CancelEndTurn
  \/ NextTurn(ConquestBounds)
  \/ CloseTurnSummary
  \/ TransitionTimeout
  \/ ParticleTimeout
  \/ VictoryBurst

SpecConquest == InitMapOne /\ [][NextConquest]_vars

\* a row of farms from the castle to the column of the house at (10, 7), and
\* a mine and two markets beside the castle
OutpostDrops ==
  ({<<7, 7>>, <<8, 7>>, <<9, 7>>} \X {"farm"})
  \cup {<<<<10, 7>>, "house">>, <<<<7, 6>>, "mine">>}
  \cup ({<<5, 5>>, <<5, 7>>} \X {"market"})

\* the bounds and input sets of the run that settles away from the castle
OutpostBounds ==
  [maxTurn |-> OutpostMaxTurn, maxPlaced |-> OutpostMaxPlaced,
   events |-> FALSE, paced |-> TRUE,
   drops |-> OutpostDrops,
   clicks |-> {<<6, 6>>}]

NextOutpost ==
  \/ HandleDrop(OutpostBounds)
  \/ HandleCellClick(OutpostBounds)
  \/ ConfirmEndTurn(OutpostBounds)
  \/ CancelEndTurn
  \/ NextTurn(OutpostBounds)
  \/ CloseTurnSummary
  \/ TransitionTimeout
  \/ ParticleTimeout

SpecOutpost == InitMapOne /\ [][NextOutpost]_vars

\* a mine and two markets beside the castle
BatchedDrops ==
  {<<<<7, 6>>, "mine">>} \cup ({<<5, 5>>, <<5, 7>>} \X {"market"})

\* the bounds and input sets of the run with two drops of one render
BatchedBounds ==
  [maxTurn |-> BatchedMaxTurn, maxPlaced |-> BatchedMaxPlaced,
   events |-> FALSE, paced |-> TRUE,
   drops |-> BatchedDrops,
   clicks |-> {<<6, 6>>}]

NextBatched ==
  \/ HandleDrop(BatchedBounds)
  \/ HandleDropTwice(BatchedBounds)
  \/ HandleCellClick(BatchedBounds)
  \/ ConfirmEndTurn(BatchedBounds)
  \/ CancelEndTurn
  \/ NextTurn(BatchedBounds)
  \/ CloseTurnSummary
  \/ TransitionTimeout
  \/ ParticleTimeout

SpecBatched == InitMapOne /\ [][NextBatched]_vars

(***************************************************************************)
(* Image gallery: effects, handlers and the loads they start.              *)
(***************************************************************************)
\* what a callback created by a render of state g reads from its closure
Closure(g) ==
  [loadingStrategy |-> g.loadingStrategy, isLoading |-> g.isLoading,
   currentPage |-> g.currentPage, allPhotos |-> g.allPhotos,
   totalPages |-> g.totalPages]

\* the setters of the reset effect, lines 364-368
resetPhotos(g) ==
  [g EXCEPT !.photos = <<>>, !.allPhotos = <<>>, !.currentPage = 1,
            !.totalPages = 1, !.hasError = FALSE]

\* the render after a handler changed the state from old to new: the reset
\* effect (lines 363-380) runs when searchQuery or loadingStrategy changed,
\* replacing the timer by one that holds the callbacks of this render
afterRender(old, new, b) ==
  IF new.searchQuery # old.searchQuery \/ new.loadingStrategy # old.loadingStrategy
    THEN [g |-> resetPhotos(new), b |-> [b EXCEPT !.timer = <<Closure(new)>>]]
    ELSE [g |-> new, b |-> b]

\* Array.prototype.slice(startIndex, endIndex)
slice(s, startIndex, endIndex) ==
  IF startIndex >= Len(s) THEN <<>> ELSE SubSeq(s, startIndex + 1, Min(endIndex, Len(s)))

\* loadMorePhotos (lines 198-206) and loadPage (lines 220-228) up to their
\* await, called from a callback with closure c
startLoad(g, b, c, kind, page) ==
  IF c.isLoading
    THEN [g |-> g, b |-> b]
    ELSE [g |-> [g EXCEPT !.isLoading = TRUE, !.hasError = FALSE],
          b |-> [b EXCEPT !.loads = Append(@, [kind |-> kind, page |-> page,
                                               allPhotos |-> c.allPhotos,
                                               totalPages |-> c.totalPages])]]

\* the concatenation of the photos fetched for pages from..to
RECURSIVE flat(_, _, _)
flat(outs, from, to) ==
  IF from > to THEN <<>> ELSE outs[from].photos \o flat(outs, from + 1, to)

\* loadMorePhotos after its await, lines 208-216
finishLoadMore(g, out) ==
  [g EXCEPT !.photos = @ \o out.photos,
            !.currentPage = @ + 1,
            !.hasError = IF out.ok THEN @ ELSE TRUE,
            !.isLoading = FALSE]

\* loadPage after its await, lines 231-268; outs are the results of the
\* fetches of the pages it asks for
finishLoadPage(g, load, outs) ==
  LET page == load.page
      startIndex == (page - 1) * ITEMS_PER_PAGE
      endIndex == startIndex + ITEMS_PER_PAGE
      currentMaxPage == Len(load.allPhotos) \div ITEMS_PER_PAGE
      updatedAllPhotos == load.allPhotos \o flat(outs, currentMaxPage + 1, page)
      failed == \E p \in (currentMaxPage + 1)..page : ~outs[p].ok
      loaded == IF Len(load.allPhotos) < endIndex
                  THEN [g EXCEPT !.allPhotos = updatedAllPhotos,
                                 !.photos = slice(updatedAllPhotos, startIndex, endIndex),
                                 !.hasError = IF failed THEN TRUE ELSE @]
                  ELSE [g EXCEPT !.photos = slice(load.allPhotos, startIndex, endIndex)]
  IN  [loaded EXCEPT !.currentPage = page,
                     !.totalPages = Max(load.totalPages, page + 2),
                     !.isLoading = FALSE]

\* the effects of the first render: lines 320-343, then lines 363-380
Mount ==
  /\ ~browser.mounted
  /\ LET viewed == updateViewportInfo(gallery, browser)
         detected == setConnectionSpeed(viewed, detectConnectionSpeed(browser.connection))
         first == [g |-> resetPhotos(detected),
                   b |-> [browser EXCEPT !.mounted = TRUE, !.timer = <<Closure(gallery)>>]]
         second == afterRender(gallery, first.g, first.b)
     IN  /\ gallery' = second.g
         /\ browser' = second.b
  /\ UNCHANGED <<gameState, prevState, terrainId, timers, lastOp>>

\* handleResize on a resize or orientationchange event, line 324
Resize ==
  /\ browser.mounted
  /\ \E viewport \in Viewports :
       LET b == [browser EXCEPT !.viewport = viewport]
           after == afterRender(gallery, updateViewportInfo(gallery, b), b)
       IN  /\ gallery' = after.g
           /\ browser' = after.b
  /\ UNCHANGED <<gameState, prevState, terrainId, timers, lastOp>>

\* handleConnectionChange on the connection's change event, line 325
ConnectionChange ==
  /\ browser.mounted
  /\ browser.connection # NoConnection
  /\ \E connection \in Connections \ {browser.connection} :
       /\ browser' = [browser EXCEPT !.connection = connection]
       /\ gallery' = setConnectionSpeed(gallery, detectConnectionSpeed(connection))
  /\ UNCHANGED <<gameState, prevState, terrainId, timers, lastOp>>

\* setSearchQuery from the search box (line 573) or Clear Search (line 791)
SetSearchQuery ==
  /\ browser.mounted
  /\ \E q \in SearchQueries \ {gallery.searchQuery} :
       LET after == afterRender(gallery, [gallery EXCEPT !.searchQuery = q], browser)
       IN  /\ gallery' = after.g
           /\ browser' = after.b
  /\ UNCHANGED <<gameState, prevState, terrainId, timers, lastOp>>

\* the timer of the reset effect, lines 371-377
ResetTimer ==
  /\ browser.timer # NoTimer
  /\ Len(browser.loads) < MaxInFlight
  /\ LET c == browser.timer[1]
         b == [browser EXCEPT !.timer = NoTimer]
         started == IF c.loadingStrategy = "pagination"
                      THEN startLoad(gallery, b, c, "page", 1)
                      ELSE startLoad(gallery, b, c, "more", c.currentPage)
     IN  /\ gallery' = started.g
         /\ browser' = started.b
  /\ UNCHANGED <<gameState, prevState, terrainId, timers, lastOp>>

\* loadMorePhotos from the observer (line 304), Try Again (line 733) or
\* Load More (line 754)
LoadMore ==
  /\ browser.mounted
  /\ Len(browser.loads) < MaxInFlight
  /\ gallery.currentPage <= MaxPhotos
  /\ \/ gallery.hasError
     \/ /\ gallery.loadingStrategy \in {"infinite-scroll", "load-more"}
        /\ ~gallery.isLoading
        /\ ~gallery.hasError
  /\ LET started == startLoad(gallery, browser, Closure(gallery), "more",
                              gallery.currentPage)
     IN  /\ gallery' = started.g
         /\ browser' = started.b
  /\ UNCHANGED <<gameState, prevState, terrainId, timers, lastOp>>

\* goToPreviousPage, goToNextPage and goToPage of the pagination controls,
\* lines 272-290, shown under the condition of line 778
GoToPage ==
  /\ browser.mounted
  /\ Len(browser.loads) < MaxInFlight
  /\ gallery.loadingStrategy = "pagination"
  /\ ~gallery.isLoading
  /\ ~gallery.hasError
  /\ Len(filteredPhotos(gallery)) > 0
  /\ \E page \in 1..Min(gallery.totalPages, MaxPage) :
       /\ page >= gallery.currentPage - 2
       /\ page <= gallery.currentPage + 2
       /\ LET started == startLoad(gallery, browser, Closure(gallery), "page", page)
          IN  /\ gallery' = started.g
              /\ browser' = started.b
  /\ UNCHANGED <<gameState, prevState, terrainId, timers, lastOp>>

\* a waiting load resumes after its delay and fetches
LoadDone ==
  /\ \E i \in DOMAIN browser.loads :
       LET load == browser.loads[i]
           room == MaxPhotos - Len(gallery.photos)
       IN  /\ browser' = [browser EXCEPT
                            !.loads = SubSeq(@, 1, i - 1) \o SubSeq(@, i + 1, Len(@))]
           /\ IF load.kind = "more"
                THEN \E out \in FetchOutcomes(room) :
                       gallery' = finishLoadMore(gallery, out)
                ELSE \E outs \in [1..load.page -> FetchOutcomes(MaxPhotos - Len(load.allPhotos))] :
                       /\ Len(load.allPhotos) + Len(flat(outs, 1, load.page)) <= MaxPhotos
                       /\ gallery' = finishLoadPage(gallery, load, outs)
  /\ UNCHANGED <<gameState, prevState, terrainId, timers, lastOp>>

InitGallery ==
  /\ gameState = InitialState
  /\ prevState = PrevObject(InitialGrid, FALSE)
  /\ terrainId = 1
  /\ timers = [transition |-> 0, victory |-> 0]
  /\ lastOp = "init"
  /\ \E viewport \in Viewports, connection \in Connections \cup {NoConnection} :
       /\ gallery = InitialGallery(viewport)
       /\ browser = InitialBrowser(viewport, connection)

NextGallery ==
  \/ Mount
  \/ Resize
  \/ ConnectionChange
  \/ SetSearchQuery
  \/ ResetTimer
  \/ LoadMore
  \/ GoToPage
  \/ LoadDone

SpecGallery == InitGallery /\ [][NextGallery]_vars

(***************************************************************************)
(* Properties.                                                             *)
(***************************************************************************)
\* cells of the grid that hold a building owned by the player
OwnedBy(grid) ==
  {c \in DOMAIN grid.cells : grid.cells[c].building.owner = "player"}

\* the Chebyshev distances from cell c to the player's buildings
DistancesFrom(grid, c) ==
  {Max(Abs(c[1] - b[1]), Abs(c[2] - b[2])) : b \in OwnedBy(grid)}

\* the conditions under which a building of type T may be put on cell c
MayPlace(gs, tid, c, T) ==
  /\ c \in gs.grid.revealed
  /\ c \notin DOMAIN gs.grid.cells
  /\ TerrainOf(tid, c) # "water"
  /\ TerrainOf(tid, c) \in PLACEMENT_RULES[T].validTerrain
  /\ \E d \in DistancesFrom(gs.grid, c) :
       /\ \A e \in DistancesFrom(gs.grid, c) : d <= e
       /\ d >= PLACEMENT_RULES[T].minDistance
       /\ d <= PLACEMENT_RULES[T].maxDistance
  /\ gs.player.gold >= BUILDING_COSTS[T].gold
  /\ gs.player.food >= BUILDING_COSTS[T].food
  /\ gs.player.population >= BUILDING_COSTS[T].population

\* C1: outside a turn's resolution, a step changes the grid or the player's
\* resources only by a placement whose cell is revealed and empty, whose
\* terrain is not water and is valid for the type, whose distance to the
\* nearest player building lies in [minDistance, maxDistance] and whose cost
\* the player can pay; every other placement attempt leaves both unchanged.
C1_PlacementOnlyWhenValid ==
  [][(/\ gameState'.turn = gameState.turn
      /\ (\/ gameState'.grid # gameState.grid
          \/ gameState'.player # gameState.player))
     => \E c \in Cells : \E T \in DOMAIN BUILDING_COSTS :
          /\ MayPlace(gameState, terrainId, c, T)
          /\ c \in DOMAIN gameState'.grid.cells
          /\ gameState'.grid.cells[c].building.type = T
          /\ lastOp' = "placeBuilding"]_vars

\* C1 witness: a house stands on a forest cell after a placement
C1_HousePlacedOnForest ==
  /\ lastOp = "placeBuilding"
  /\ \E c \in DOMAIN gameState.grid.cells :
       /\ gameState.grid.cells[c].building.type = "house"
       /\ TerrainOf(terrainId, c) = "forest"

\* the per-turn deltas before modifiers, summed over the player's buildings
BaseDeltas(grid) ==
  LET owned == OwnedBy(grid)
      E(c) == BUILDING_EFFECTS[grid.cells[c].building.type]
  IN  [gold |-> 5 + SumOver(owned, [c \in owned |->
                       E(c).produces.gold + grid.cells[c].adjacencyBonus
                         - E(c).consumes.gold]),
       population |-> 1 + SumOver(owned, [c \in owned |->
                       E(c).produces.population - E(c).consumes.population]),
       food |-> -2 + SumOver(owned, [c \in owned |->
                       E(c).produces.food - E(c).consumes.food]),
       military |-> SumOver(owned, [c \in owned |->
                       E(c).produces.military - E(c).consumes.military])]

\* value x (tenths / 10) rounded to the nearest integer, halves upwards
RoundedShare(value, tenths) ==
  LET q == (value * tenths) \div 10
      r == (value * tenths) % 10
  IN  IF r >= 5 THEN q + 1 ELSE q

\* how many of the events have the type and, unless "", the message
CountEvents(events, type, message) ==
  Cardinality({i \in DOMAIN events :
                 /\ events[i].type = type
                 /\ (message = "" \/ events[i].message = message)})

\* the random-event bonus a turn's events carry
EventDeltas(events) ==
  [gold |-> 200 * CountEvents(events, "resource_discovery", "gold_vein")
              - 50 * CountEvents(events, "bandit_attack", ""),
   population |-> 20 * CountEvents(events, "resource_discovery", "ancient_ruins"),
   food |-> 50 * CountEvents(events, "resource_discovery", "fertile_lands")
              - 20 * CountEvents(events, "bandit_attack", ""),
   military |-> 5 * CountEvents(events, "bandit_attack", "")]

\* base deltas plus the seasonal share under the given effects plus events
ModifiedDeltas(base, effects, event) ==
  [gold |-> base.gold + RoundedShare(base.gold, effects.goldBonus) + event.gold,
   population |-> base.population + event.population,
   food |-> base.food + RoundedShare(base.food, effects.foodBonus) + event.food,
   military |-> base.military + RoundedShare(base.military, effects.militaryBonus)
                  + event.military]

\* C2: a resolved turn's deltas are 5 / 1 / -2 / 0 plus the sums of produces
\* minus consumes (plus adjacencyBonus for gold) over the player's buildings,
\* plus round(value x season bonus) for gold, food and military, plus the
\* random-event bonus of the turn's events; the player's resources move by
\* that delta (down to their floors).
C2_TurnDeltas ==
  [][gameState'.turn # gameState.turn
     => LET delta == ModifiedDeltas(BaseDeltas(gameState.grid),
                                    gameState'.currentSeason.effects,
                                    EventDeltas(gameState'.turnEvents))
        IN  /\ gameState'.resourceChanges = delta
            /\ gameState'.player.gold = Max(0, gameState.player.gold + delta.gold)
            /\ gameState'.player.population
                 = Max(1, gameState.player.population + delta.population)
            /\ gameState'.player.food = Max(0, gameState.player.food + delta.food)
            /\ gameState'.player.militaryStrength
                 = Max(0, gameState.player.militaryStrength + delta.military)]_vars

\* C2 witness: a turn was resolved with a bandit attack while a building with
\* an adjacency bonus stood next to another
C2_TurnWithBonusAndEvent ==
  /\ lastOp = "nextTurn"
  /\ CountEvents(gameState.turnEvents, "bandit_attack", "") = 1
  /\ \E c \in OwnedBy(gameState.grid) : gameState.grid.cells[c].adjacencyBonus > 0

\* a win condition holds in the state
WinCondition(gs) ==
  \/ gs.territoryControlPercentage >= 60
  \/ /\ gs.player.gold >= 5000 /\ gs.player.population >= 200
     /\ gs.player.food >= 500 /\ gs.player.militaryStrength >= 100
  \/ gs.achievements["all_buildings"].unlocked

\* C3: the state a placeBuilding or a nextTurn results in, when it meets a
\* win condition, has gameWon, gamePhase 'victory' and a victoryType naming a
\* condition it meets.
C3_WinCheckedAfterEveryChange ==
  (lastOp \in {"placeBuilding", "nextTurn"} /\ WinCondition(gameState))
    => /\ gameState.gameWon
       /\ gameState.gamePhase = "victory"
       /\ \/ gameState.victoryType = "territory"
             /\ gameState.territoryControlPercentage >= 60
          \/ gameState.victoryType = "resources"
             /\ gameState.player.gold >= 5000
          \/ gameState.victoryType = "buildings"
             /\ gameState.achievements["all_buildings"].unlocked

\* each achievement recomputed from the state
RecomputedAchievements(gs) ==
  LET owned == OwnedBy(gs.grid)
      types == {gs.grid.cells[c].building.type : c \in owned}
      capped(value, maxProgress) == IF value < maxProgress THEN value ELSE maxProgress
  IN  [a \in AchievementIds |->
        IF a = "first_building"
          THEN [unlocked |-> owned # {}, progress |-> capped(Cardinality(owned), 1)]
        ELSE IF a = "gold_collector"
          THEN [unlocked |-> gs.player.gold >= 1000,
                progress |-> capped(gs.player.gold, 1000)]
        ELSE IF a = "empire_builder"
          THEN [unlocked |-> gs.territoryControlPercentage >= 25,
                progress |-> capped(gs.territoryControlPercentage, 25)]
        ELSE IF a = "all_buildings"
          THEN [unlocked |-> types = BuildingTypes,
                progress |-> capped(Cardinality(types), 7)]
        ELSE [unlocked |-> gs.player.population >= 100,
              progress |-> capped(gs.player.population, 100)]]

\* C4 as stated: in every reachable state, the initial one included, the
\* achievements equal the values recomputed from the state.
C4_AchievementsAlwaysCurrent ==
  gameState.achievements = RecomputedAchievements(gameState)

\* C4: once a placeBuilding or a nextTurn has run, the achievements equal the
\* values recomputed from the state; until then every achievement is locked
\* with progress 0.
C4_AchievementsCurrentAfterFirstChange ==
  /\ lastOp # "init"
       => gameState.achievements = RecomputedAchievements(gameState)
  /\ lastOp = "init"
       => \A a \in AchievementIds :
            /\ ~gameState.achievements[a].unlocked
            /\ gameState.achievements[a].progress = 0

\* C4 witness: after a placement first_building is unlocked and the progress
\* of empire_builder has followed the territory beyond its initial 6 percent
C4_ProgressFollowedPlacement ==
  /\ lastOp = "placeBuilding"
  /\ gameState.achievements["first_building"].unlocked
  /\ gameState.achievements["empire_builder"].progress > 6
  /\ gameState.achievements["gold_collector"].progress < 300

\* the sum of ADJACENCY_BONUSES[T][N] over the neighbours of c that hold a
\* player building of type N
NeighbourBonus(grid, c) ==
  LET T == grid.cells[c].building.type
      near == {n \in OwnedBy(grid) :
                 /\ n # c
                 /\ Abs(n[1] - c[1]) <= 1
                 /\ Abs(n[2] - c[2]) <= 1}
      N(n) == grid.cells[n].building.type
  IN  SumOver(near, [n \in near |->
                       IF N(n) \in DOMAIN ADJACENCY_BONUSES[T]
                         THEN ADJACENCY_BONUSES[T][N(n)] ELSE 0])

\* C5: every cell holding a player building has adjacencyBonus equal to the
\* sum of the table's bonuses over its neighbouring player buildings, and
\* income equal to the type's produced gold plus that sum, buildings placed
\* earlier included.
C5_AdjacencyCurrent ==
  \A c \in OwnedBy(gameState.grid) :
    /\ gameState.grid.cells[c].adjacencyBonus = NeighbourBonus(gameState.grid, c)
    /\ gameState.grid.cells[c].building.income
         = BUILDING_EFFECTS[gameState.grid.cells[c].building.type].produces.gold
             + NeighbourBonus(gameState.grid, c)

\* C5 witness: the castle, which stood first, carries the bonus of a
\* neighbour placed after it
C5_CastleBonusUpdated ==
  /\ lastOp = "placeBuilding"
  /\ Cardinality(OwnedBy(gameState.grid)) >= 2
  /\ gameState.grid.cells[<<6, 6>>].building.type = "castle"
  /\ gameState.grid.cells[<<6, 6>>].adjacencyBonus >= 10
  /\ gameState.grid.cells[<<6, 6>>].building.income >= 30

\* C6: currentSeason is SEASONS[floor((turn - 1) / 4) mod 4]: Spring, Summer,
\* Autumn, Winter, four turns each, starting with Spring at turn 1.
C6_SeasonOfTurn ==
  /\ gameState.currentSeason = SEASONS[(((gameState.turn - 1) \div 4) % 4) + 1]
  /\ gameState.currentSeason.name
       = <<"Spring", "Summer", "Autumn", "Winter">>[(((gameState.turn - 1) \div 4) % 4) + 1]

\* C6 witness: the seasons have come round to Spring again at turn 17
C6_SecondSpring ==
  /\ gameState.turn = 17
  /\ gameState.currentSeason.name = "Spring"
  /\ lastOp = "nextTurn"

\* C7 as stated: the seasonal multipliers applied to a resolved turn are
\* those of currentSeason when the turn is ended.
C7_BonusesOfSeasonShown ==
  [][gameState'.turn # gameState.turn
     => gameState'.resourceChanges
          = ModifiedDeltas(BaseDeltas(gameState.grid),
                           gameState.currentSeason.effects,
                           EventDeltas(gameState'.turnEvents))]_vars

\* the season after the given one
SeasonAfter(season) ==
  CHOOSE s \in {SEASONS[i] : i \in 1 .. 4} :
    \E i \in 1 .. 4 : SEASONS[i] = season /\ s = SEASONS[(i % 4) + 1]

\* C7: the seasonal multipliers applied to a resolved turn are those of the
\* season the turn makes current, SEASONS[floor(turn / 4) mod 4] for the
\* turn ended: the season shown when the turn is ended unless that turn is a
\* multiple of 4, and then the season after it.
C7_BonusesOfSeasonEntered ==
  [][gameState'.turn # gameState.turn
     => LET applied == SEASONS[((gameState.turn \div 4) % 4) + 1]
        IN  /\ gameState'.resourceChanges
                 = ModifiedDeltas(BaseDeltas(gameState.grid), applied.effects,
                                  EventDeltas(gameState'.turnEvents))
            /\ gameState'.currentSeason = applied
            /\ gameState.turn % 4 # 0 => applied = gameState.currentSeason
            /\ gameState.turn % 4 = 0
                 => applied = SeasonAfter(gameState.currentSeason)]_vars

\* C7 witness: turn 4 has been resolved into Summer
C7_SummerEntered ==
  /\ gameState.turn = 5
  /\ lastOp = "nextTurn"
  /\ gameState.currentSeason.name = "Summer"
  /\ gameState.resourceChanges.gold > 0

\* C8: a step that changes turn or timeOfDay is a nextTurn, adds exactly 1
\* to turn and flips timeOfDay; in every state timeOfDay is 'day' iff turn
\* is odd.
C8_TurnIsOneStep ==
  /\ [](gameState.timeOfDay = "day" <=> gameState.turn % 2 = 1)
  /\ [](gameState.timeOfDay \in {"day", "night"})
  /\ [][(\/ gameState'.turn # gameState.turn
         \/ gameState'.timeOfDay # gameState.timeOfDay)
        => /\ gameState'.turn = gameState.turn + 1
           /\ gameState'.timeOfDay # gameState.timeOfDay
           /\ gameState.showEndTurnConfirm
           /\ ~gameState'.showEndTurnConfirm
           /\ lastOp' = "nextTurn"]_vars

\* C8 witness: two turns were resolved, back to day, and a building placed
\* afterwards
C8_DayAgainAtTurnThree ==
  /\ gameState.turn = 3
  /\ gameState.timeOfDay = "day"
  /\ lastOp = "placeBuilding"

\* C9: a placeBuilding or a nextTurn leaves the state object it was given as
\* it was: its cells and its isLoading flag keep their values.
C9_PreviousStateUntouched ==
  [][(\/ gameState'.turn # gameState.turn
      \/ gameState'.grid # gameState.grid)
     => /\ prevState'.grid = gameState.grid
        /\ prevState'.isLoading = gameState.isLoading]_vars

\* a step of a delayed callback: a pending transition or victory timeout is
\* used up, or a particle is removed
TimerStep ==
  \/ timers'.transition < timers.transition
  \/ timers'.victory < timers.victory
  \/ \E t \in DOMAIN gameState.particleEffects :
       gameState'.particleEffects[t] < gameState.particleEffects[t]

C12_GridFrame ==
  [][/\ terrainId' = terrainId
     /\ \A c \in gameState'.grid.revealed :
          TerrainOf(terrainId', c) = TerrainOf(terrainId, c)
     /\ gameState'.grid.revealed \subseteq (0 .. 11) \X (0 .. 11)
     /\ DOMAIN gameState'.grid.cells \subseteq (0 .. 11) \X (0 .. 11)
     /\ gameState.grid.revealed \subseteq gameState'.grid.revealed
     /\ \A c \in DOMAIN gameState.grid.cells :
          /\ c \in DOMAIN gameState'.grid.cells
          /\ gameState'.grid.cells[c].building.type
               = gameState.grid.cells[c].building.type
          /\ gameState'.grid.cells[c].building.owner
               = gameState.grid.cells[c].building.owner]_vars

\* C12 witness: a building was placed after a turn was resolved; the castle
\* stands where it stood and its block is still revealed among more cells
C12_GridKeptThroughTurnAndPlacement ==
  /\ lastOp = "placeBuilding"
  /\ gameState.turn = 2
  /\ Cardinality(gameState.grid.revealed) > 9
  /\ {c \in Cells : Abs(c[1] - 6) <= 1 /\ Abs(c[2] - 6) <= 1}
       \subseteq gameState.grid.revealed
  /\ gameState.grid.cells[<<6, 6>>].building.type = "castle"

\* the strategy the gallery is to use for an orientation and a speed
AdaptiveStrategy(isPortrait, connectionSpeed) ==
  CASE isPortrait -> "pagination"
    [] ~isPortrait /\ connectionSpeed = "fast" -> "infinite-scroll"
    [] ~isPortrait /\ connectionSpeed = "slow" -> "load-more"

\* C13: once the gallery is mounted, after every resize, orientation-change
\* or connection-change event was handled, loadingStrategy is the strategy
\* of the current orientation and the current connectionSpeed.
C13_StrategyFollowsOrientationAndSpeed ==
  browser.mounted
    => gallery.loadingStrategy
         = AdaptiveStrategy(gallery.isPortrait, gallery.connectionSpeed)

\* the column (from 0) that each of the first n photos is to be put into:
\* photo number i to column i mod count under an active search, otherwise to
\* the lowest column among those with the least sum of height / width
RECURSIVE LayoutOf(_, _, _, _)
LayoutOf(photos, n, count, active) ==
  IF n = 0
    THEN <<>>
    ELSE LET before == LayoutOf(photos, n - 1, count, active)
             sum == [k \in 0..(count - 1) |->
                       SumOver({j \in 1..(n - 1) : before[j] = k},
                               [j \in 1..(n - 1) |-> aspect(photos[j])])]
             least == CHOOSE k \in 0..(count - 1) :
                        \A j \in 0..(count - 1) :
                          sum[k] < sum[j] \/ (sum[k] = sum[j] /\ k <= j)
         IN  Append(before, IF active THEN (n - 1) % count ELSE least)

\* the photos of a list that a layout puts into column k, in the list's order
PhotosOfColumn(photos, layout, k) ==
  LET numbers == {j \in 1..Len(photos) : layout[j] = k}
  IN  [m \in 1..Cardinality(numbers) |->
         photos[CHOOSE j \in numbers : Cardinality({i \in numbers : i <= j}) = m]]

\* C14: photoColumns has exactly columnCount columns, and column k holds, in
\* the order of filteredPhotos, exactly the filtered photos that the layout
\* rule assigns to k: the column with the least accumulated height / width
\* (lowest index on ties) without a search, column i mod columnCount for
\* photo number i under an active search.
C14_ColumnsPartitionFilteredPhotos ==
  LET photos == filteredPhotos(gallery)
      count == gallery.columnCount
      layout == LayoutOf(photos, Len(photos), count, trim(gallery.searchQuery) # <<>>)
      columns == photoColumns(gallery)
  IN  /\ DOMAIN columns = 0..(count - 1)
      /\ \A k \in 0..(count - 1) : columns[k] = PhotosOfColumn(photos, layout, k)

\* C14 witness: three photos in two columns without a search, the tall first
\* photo alone in column 0 and the two others in column 1
C14_SecondColumnTakesTwo ==
  /\ gallery.columnCount = 2
  /\ trim(gallery.searchQuery) = <<>>
  /\ Len(filteredPhotos(gallery)) = 3
  /\ Len(photoColumns(gallery)[0]) = 1
  /\ Len(photoColumns(gallery)[1]) = 2

\* the seasonal_change events among the events of a turn
SeasonalChanges(events) ==
  {events[i] : i \in {j \in DOMAIN events : events[j].type = "seasonal_change"}}

\* C15: the events of a resolved turn contain a seasonal_change event exactly
\* when that turn changed currentSeason, and the event names the season that
\* has become current.
C15_SeasonAnnouncedWhenItChanges ==
  [][gameState'.turn # gameState.turn
       => /\ (SeasonalChanges(gameState'.turnEvents) # {})
               <=> (gameState'.currentSeason.name # gameState.currentSeason.name)
          /\ \A e \in SeasonalChanges(gameState'.turnEvents) :
               e.season = gameState'.currentSeason.name]_vars

\* C16 as stated: a territory victory is held only by states with at least
\* 87 revealed cells, territoryControlPercentage being
\* round(100 x revealed / 144).
C16_TerritoryVictoryNeeds87Cells ==
  gameState.victoryType = "territory"
    => /\ Cardinality(gameState.grid.revealed) >= 87
       /\ gameState.territoryControlPercentage
            = MathRound(100 * Cardinality(gameState.grid.revealed), 144)

\* C16: a territory victory is held only by states whose
\* territoryControlPercentage, round(100 x revealed / 144), is at least 60,
\* which is at least 86 revealed cells of the 144.
C16_TerritoryVictoryNeedsRounded60 ==
  gameState.victoryType = "territory"
    => /\ gameState.territoryControlPercentage
            = MathRound(100 * Cardinality(gameState.grid.revealed), 144)
       /\ gameState.territoryControlPercentage >= 60
       /\ Cardinality(gameState.grid.revealed) >= 86

\* C16 witness: the territory victory declared with 86 revealed cells
C16_VictoryWith86Cells ==
  /\ gameState.gameWon
  /\ gameState.victoryType = "territory"
  /\ Cardinality(gameState.grid.revealed) = 86
  /\ gameState.territoryControlPercentage = 60

BlockInGrid(c) ==
  {d \in (0 .. 11) \X (0 .. 11) : Abs(d[1] - c[1]) <= 1 /\ Abs(d[2] - c[2]) <= 1}

\* C18: a step that puts a building on the grid puts it on exactly one cell
\* c, as a level-1 building of some type T owned by the player, and keeps the
\* type, level and owner of every other building; it reveals exactly the
\* cells of the grid in the 3 x 3 block around c on top of those revealed
\* before; it takes BUILDING_COSTS[T] from gold, food and population, adds 2
\* population for a house and leaves army and militaryStrength alone; it sets
\* territoryControlPercentage to round(100 x revealed / 144); it keeps turn,
\* timeOfDay and currentSeason.
C18_PlacementEffects ==
  [][DOMAIN gameState'.grid.cells # DOMAIN gameState.grid.cells
       => \E c \in Cells \ DOMAIN gameState.grid.cells, T \in DOMAIN BUILDING_COSTS :
            /\ DOMAIN gameState'.grid.cells = DOMAIN gameState.grid.cells \cup {c}
            /\ gameState'.grid.cells[c].building.type = T
            /\ gameState'.grid.cells[c].building.level = 1
            /\ gameState'.grid.cells[c].building.owner = "player"
            /\ \A d \in DOMAIN gameState.grid.cells :
                 /\ gameState'.grid.cells[d].building.type
                      = gameState.grid.cells[d].building.type
                 /\ gameState'.grid.cells[d].building.level
                      = gameState.grid.cells[d].building.level
                 /\ gameState'.grid.cells[d].building.owner
                      = gameState.grid.cells[d].building.owner
            /\ gameState'.grid.revealed = gameState.grid.revealed \cup BlockInGrid(c)
            /\ gameState'.player
                 = [gameState.player EXCEPT
                      !.gold = @ - BUILDING_COSTS[T].gold,
                      !.food = @ - BUILDING_COSTS[T].food,
                      !.population = @ - BUILDING_COSTS[T].population
                                       + (IF T = "house" THEN 2 ELSE 0)]
            /\ gameState'.territoryControlPercentage
                 = MathRound(100 * Cardinality(gameState'.grid.revealed), 144)
            /\ gameState'.turn = gameState.turn
            /\ gameState'.timeOfDay = gameState.timeOfDay
            /\ gameState'.currentSeason = gameState.currentSeason]_vars

\* C18 witness: a house was placed in the first turn, for 50 gold and 5 food,
\* and brought 2 population
C18_HousePlaced ==
  /\ lastOp = "placeBuilding"
  /\ \E c \in DOMAIN gameState.grid.cells :
       /\ gameState.grid.cells[c].building.type = "house"
       /\ BlockInGrid(c) \subseteq gameState.grid.revealed
  /\ gameState.player.gold = 250
  /\ gameState.player.food = 45
  /\ gameState.player.population = 12
  /\ gameState.turn = 1

\* the bonus each random event is announced with
AnnouncedBonus(event) ==
  CASE event.type = "resource_discovery" /\ event.message = "gold_vein"
         -> [gold |-> 200, population |-> 0, food |-> 0, military |-> 0]
    [] event.type = "resource_discovery" /\ event.message = "fertile_lands"
         -> [gold |-> 0, population |-> 0, food |-> 50, military |-> 0]
    [] event.type = "resource_discovery" /\ event.message = "ancient_ruins"
         -> [gold |-> 0, population |-> 20, food |-> 0, military |-> 0]
    [] event.type = "bandit_attack"
         -> [gold |-> -50, population |-> 0, food |-> -20, military |-> 5]
    [] OTHER
         -> [gold |-> 0, population |-> 0, food |-> 0, military |-> 0]

\* the weather, discovery and bandit events among the events of a turn
ChanceEvents(events) ==
  {i \in DOMAIN events :
     events[i].type \in {"weather_effect", "resource_discovery", "bandit_attack"}}

\* C19: the events of a resolved turn hold at most one weather, discovery or
\* bandit event, and the turn's deltas exceed the base deltas with their
\* seasonal share by exactly the announced bonus of that event: +200 gold,
\* +50 food, +20 population, or -50 gold, -20 food and +5 military, and by
\* nothing when there is no such event.
C19_EventBonusAsAnnounced ==
  [][gameState'.turn # gameState.turn
       => LET events == gameState'.turnEvents
              plain == ModifiedDeltas(BaseDeltas(gameState.grid),
                                      gameState'.currentSeason.effects,
                                      [gold |-> 0, population |-> 0, food |-> 0,
                                       military |-> 0])
              bonus == [r \in {"gold", "population", "food", "military"} |->
                          gameState'.resourceChanges[r] - plain[r]]
          IN  /\ Cardinality(ChanceEvents(events)) <= 1
              /\ \A i \in ChanceEvents(events) :
                   \A r \in DOMAIN bonus : bonus[r] = AnnouncedBonus(events[i])[r]
              /\ ChanceEvents(events) = {} => \A r \in DOMAIN bonus : bonus[r] = 0]_vars

\* C19 witness: a turn was resolved with the discovery of fertile lands and
\* its 50 food
C19_FertileLandsFound ==
  /\ lastOp = "nextTurn"
  /\ CountEvents(gameState.turnEvents, "resource_discovery", "fertile_lands") = 1
  /\ gameState.resourceChanges.food >= 48
  /\ gameState.player.food >= 98

\* C20: when the events of a resolved turn include the perfect-weather event,
\* each of the turn's deltas is, to the nearest unit, 115% of what the turn
\* yields without the event.
C20_PerfectWeatherBoostsProduction ==
  [][(/\ gameState'.turn # gameState.turn
      /\ CountEvents(gameState'.turnEvents, "weather_effect", "perfect_weather") > 0)
       => LET plain == ModifiedDeltas(BaseDeltas(gameState.grid),
                                      gameState'.currentSeason.effects,
                                      [gold |-> 0, population |-> 0, food |-> 0,
                                       military |-> 0])
          IN  \A r \in {"gold", "population", "food", "military"} :
                Abs(100 * gameState'.resourceChanges[r] - 115 * plain[r]) < 100]_vars

\* C21: a step that puts a house on a cell c finds, in the state it starts
\* from, a castle or a house of the player within Chebyshev distance 3 of c.
C21_HouseNearCastleOrHouse ==
  [][\A c \in DOMAIN gameState'.grid.cells \ DOMAIN gameState.grid.cells :
       gameState'.grid.cells[c].building.type = "house"
         => \E d \in PlayerCells(gameState.grid) :
              /\ gameState.grid.cells[d].building.type \in {"castle", "house"}
              /\ calculateDistance(c[1], c[2], d[1], d[2]) <= 3]_vars

\* C23: the player's population is at least 1 in every reachable state,
\* after a resolved turn and after a building's population cost was paid.
C23_PopulationAtLeastOne ==
  gameState.player.population >= 1

\* gold, food, militaryStrength and army are not negative
NonNegativeResources(player) ==
  /\ player.gold >= 0
  /\ player.food >= 0
  /\ player.militaryStrength >= 0
  /\ player.army >= 0

====
